---------------------------- MODULE Spec2Model ----------------------------
(***************************************************************************)
(* A model of the visitor-logging servers of my-web-projects:               *)
(*   - src/ip-store-site/server.js lines 1-208: the pseudonymizing server   *)
(*     (maskIp, pseudonymizeIp, geoLookup, getClientIp, POST /api/log,      *)
(*     GET /admin/logs, retentionDeleteOldLogs and its cron schedule);      *)
(*   - src/ip-store-site/server.js lines 210-353: the draft of the same     *)
(*     server that stores the address as it is (POST /api/log, raw variant);*)
(*   - src/unnamed/part_001: the server whose middleware appends one line   *)
(*     per request to ip-log.txt;                                           *)
(*   - src/unnamed/part_000: the browser script whose consent button posts  *)
(*     to /api/consent.                                                     *)
(*                                                                          *)
(* JavaScript strings are sequences of one-character strings, so that the   *)
(* regular expressions, split, trim and join of the code are computed       *)
(* character by character.  null/undefined is the value Null.               *)
(***************************************************************************)
EXTENDS Integers, Sequences, FiniteSets, TLC

VARIABLES
    now,        \* wall clock of the host, in seconds
    nticks,     \* seconds passed while no timer ran (bounds the exploration)
    jar,        \* jar[c]: client c's browser holds the consent cookie
    reqs,       \* reqs[r]: frame of the r-th POST /api/log (pseudonymizing server)
    logs,       \* table logs of the pseudonymizing server, in rowid order
    seq,        \* sqlite_sequence of table logs (AUTOINCREMENT)
    dbPromise,  \* "pending" | "resolved" | "rejected" (open() of line 47)
    alive,      \* the process of the pseudonymizing server is running
    rreqs,      \* rreqs[r]: frame of the r-th POST /api/log (raw variant)
    rlogs,      \* table logs of the raw variant, in rowid order
    ipLog,      \* ip-log.txt of the middleware server, one entry per line
    admin,      \* the GET /admin/logs exchange in progress or last answered
    sweeps,     \* retention: invocations of retentionDeleteOldLogs and their state
    console,    \* what was written with console.error and console.warn, oldest first
    calls,      \* the last call of a utility function: its argument and result
    indexed,    \* index idx_logs_time of line 68 exists in ip_store.db
    waiting,    \* the continuations of `await dbPromise`, in the order they wait;
                \* after open(): those whose statement is issued but not applied
    mreqs,      \* mreqs[r]: the r-th request of the middleware server
    initDb      \* where initDb of lines 52-71 stands in the running process

vars == <<now, nticks, jar, reqs, logs, seq, dbPromise, alive,
          rreqs, rlogs, ipLog, admin, sweeps, console, calls, indexed, waiting,
          mreqs, initDb>>

----------------------------------------------------------------------------
(* Strings *)

Null == <<"NULL">>

Digits == {"0", "1", "2", "3", "4", "5", "6", "7", "8", "9"}

\* JavaScript's ToBoolean of a string or null: '' and null are falsy.
Falsy(s) == s = Null \/ s = <<>>

\* a || b on strings
OrElse(a, b) == IF Falsy(a) THEN b ELSE a

HasPrefix(s, p) == Len(s) >= Len(p) /\ SubSeq(s, 1, Len(p)) = p

Drop(s, n) == SubSeq(s, n + 1, Len(s))

S_unknown == <<"u", "n", "k", "n", "o", "w", "n">>
S_Unknown == <<"U", "n", "k", "n", "o", "w", "n">>
S_masked == <<"m", "a", "s", "k", "e", "d">>
S_mapped == <<":", ":", "f", "f", "f", "f", ":">>
S_xx == <<".", "x", ".", "x">>
S_xxxx == <<":", "x", "x", "x", "x", ":", "x", "x", "x", "x">>
S_slash == <<"/">>
S_apilog == <<"/", "a", "p", "i", "/", "l", "o", "g">>

\* s.replace(/^::ffff:/, '')
StripMapped(s) == IF HasPrefix(s, S_mapped) THEN Drop(s, Len(S_mapped)) ELSE s

\* index of the first occurrence of character c in s at or after i, 0 if none
RECURSIVE IndexFrom(_, _, _)
IndexFrom(s, c, i) ==
    IF i > Len(s) THEN 0
    ELSE IF s[i] = c THEN i
    ELSE IndexFrom(s, c, i + 1)

\* s.split(c): the pieces between the occurrences of c, empty ones included
RECURSIVE Split(_, _)
Split(s, c) ==
    LET k == IndexFrom(s, c, 1)
    IN  IF k = 0 THEN <<s>>
        ELSE <<SubSeq(s, 1, k - 1)>> \o Split(Drop(s, k), c)

\* parts.filter(Boolean)
RECURSIVE FilterBoolean(_)
FilterBoolean(parts) ==
    IF parts = <<>> THEN <<>>
    ELSE IF Head(parts) = <<>> THEN FilterBoolean(Tail(parts))
    ELSE <<Head(parts)>> \o FilterBoolean(Tail(parts))

\* parts.join(c)
RECURSIVE Join(_, _)
Join(parts, c) ==
    IF parts = <<>> THEN <<>>
    ELSE IF Len(parts) = 1 THEN parts[1]
    ELSE parts[1] \o <<c>> \o Join(Tail(parts), c)

\* The code units String.prototype.trim (line 120) and parseInt (lines
\* 166-167) remove: the WhiteSpace and LineTerminator of ECMAScript, U+0009
\* to U+000D, U+0020, U+00A0, U+1680, U+2000 to U+200A, U+2028, U+2029,
\* U+202F, U+205F, U+3000 and U+FEFF.  A code unit that has no escape in a
\* TLA+ string is written by its name, "U+hhhh".
WhiteSpace ==
    {"\t", "\n", "U+000B", "\f", "\r", " ", "U+00A0", "U+1680",
     "U+2000", "U+2001", "U+2002", "U+2003", "U+2004", "U+2005", "U+2006",
     "U+2007", "U+2008", "U+2009", "U+200A", "U+2028", "U+2029", "U+202F",
     "U+205F", "U+3000", "U+FEFF"}

\* s.trim()
RECURSIVE TrimLeft(_)
TrimLeft(s) ==
    IF s # <<>> /\ Head(s) \in WhiteSpace THEN TrimLeft(Tail(s)) ELSE s

RECURSIVE TrimRight(_)
TrimRight(s) ==
    IF s # <<>> /\ s[Len(s)] \in WhiteSpace
    THEN TrimRight(SubSeq(s, 1, Len(s) - 1)) ELSE s

Trim(s) == TrimRight(TrimLeft(s))

\* length of the run of digits of s that starts at i (0 if s[i] is no digit)
RECURSIVE DigitRun(_, _)
DigitRun(s, i) ==
    IF i > Len(s) \/ s[i] \notin Digits THEN 0
    ELSE 1 + DigitRun(s, i + 1)

AllDigits(s) == \A i \in 1..Len(s) : s[i] \in Digits

----------------------------------------------------------------------------
(* maskIp, server.js lines 74-85 *)

\* ip.match(/^(\d{1,3})\.(\d{1,3})\.(\d{1,3})\.(\d{1,3})$/): the four groups,
\* or <<>> when the string does not match
MatchIPv4(ip) ==
    LET p == Split(ip, ".")
    IN  IF Len(p) = 4 /\ \A i \in 1..4 : Len(p[i]) \in 1..3 /\ AllDigits(p[i])
        THEN p ELSE <<>>

MaskIpv6Branch(ip) ==
    LET parts == FilterBoolean(Split(ip, ":"))
    IN  IF Len(parts) >= 3
        THEN Join(SubSeq(parts, 1, 3), ":") \o S_xxxx
        ELSE S_masked

maskIpUnmasked(ipRaw) ==
    IF Falsy(ipRaw) THEN S_unknown ELSE StripMapped(ipRaw)

maskIp(ipRaw) ==
    IF Falsy(ipRaw) THEN S_unknown
    ELSE LET ip == StripMapped(ipRaw)
             m == MatchIPv4(ip)
         IN  IF m # <<>> THEN m[1] \o <<".">> \o m[2] \o S_xx
             ELSE MaskIpv6Branch(ip)

----------------------------------------------------------------------------
(* The logging middleware, part_001 lines 12-21 *)

\* /(\d+\.\d+)\.\d+\.\d+/ matched at position i of s: <<end of group 1, end of
\* the match>>, or <<>>.  Each \d+ is greedy and the next token is a '.', so
\* the first three runs are maximal; the last one is maximal by greed.
DottedQuadAt(s, i) ==
    LET a == DigitRun(s, i)
        j == i + a                        \* the first '.'
        b == IF a > 0 /\ j <= Len(s) /\ s[j] = "." THEN DigitRun(s, j + 1) ELSE 0
        k == j + 1 + b                    \* the second '.'
        c == IF b > 0 /\ k <= Len(s) /\ s[k] = "." THEN DigitRun(s, k + 1) ELSE 0
        l == k + 1 + c                    \* the third '.'
        d == IF c > 0 /\ l <= Len(s) /\ s[l] = "." THEN DigitRun(s, l + 1) ELSE 0
    IN  IF d > 0 THEN <<k - 1, l + d>> ELSE <<>>

\* ip.replace(/(\d+\.\d+)\.\d+\.\d+/, '$1.x.x'): the leftmost match is replaced
MiddlewareMask(ip) ==
    LET starts == {i \in 1..Len(ip) : DottedQuadAt(ip, i) # <<>>}
    IN  IF starts = {} THEN ip
        ELSE LET i == CHOOSE x \in starts : \A y \in starts : x <= y
                 m == DottedQuadAt(ip, i)
             IN  SubSeq(ip, 1, m[1]) \o S_xx \o SubSeq(ip, m[2] + 1, Len(ip))

\* req.headers['x-forwarded-for'] || req.socket.remoteAddress || 'Unknown'
MiddlewareIp(xff, remote) == OrElse(OrElse(xff, remote), S_Unknown)

----------------------------------------------------------------------------
(* getClientIp, server.js lines 118-124, and its use at line 130 *)

getClientIpUntrimmed(xff, remote) ==
    IF ~Falsy(xff) THEN Split(xff, ",")[1]
    ELSE IF ~Falsy(remote) THEN remote
    ELSE S_unknown

\* req.ip is, under 'trust proxy' true, the leftmost X-Forwarded-For entry or
\* the socket address: it adds nothing when both are absent.
getClientIp(xff, remote) ==
    IF ~Falsy(xff) THEN Trim(Split(xff, ",")[1])
    ELSE IF ~Falsy(remote) THEN remote
    ELSE S_unknown

rawIpOf(xff, remote) == StripMapped(getClientIp(xff, remote))

----------------------------------------------------------------------------
(* Numbers read from request text *)

DigitValue(c) ==
    CASE c = "0" -> 0 [] c = "1" -> 1 [] c = "2" -> 2 [] c = "3" -> 3
      [] c = "4" -> 4 [] c = "5" -> 5 [] c = "6" -> 6 [] c = "7" -> 7
      [] c = "8" -> 8 [] c = "9" -> 9

\* the number written by the digits s (0 for no digits)
RECURSIVE ToNat(_)
ToNat(s) ==
    IF s = <<>> THEN 0
    ELSE 10 * ToNat(SubSeq(s, 1, Len(s) - 1)) + DigitValue(s[Len(s)])

----------------------------------------------------------------------------
(* Address forms, as the claims speak of them: what Node takes for an IP    *)
(* address                                                                  *)

\* the forms net.isIPv4 and net.isIPv6 of Node accept
HexDigits ==
    Digits \cup {"a", "b", "c", "d", "e", "f"} \cup {"A", "B", "C", "D", "E", "F"}

LowerCase ==
    {"a", "b", "c", "d", "e", "f", "g", "h", "i", "j", "k", "l", "m", "n", "o",
     "p", "q", "r", "s", "t", "u", "v", "w", "x", "y", "z"}

UpperCase ==
    {"A", "B", "C", "D", "E", "F", "G", "H", "I", "J", "K", "L", "M", "N", "O",
     "P", "Q", "R", "S", "T", "U", "V", "W", "X", "Y", "Z"}

\* what may follow the % of a scoped IPv6 address
ZoneChars == Digits \cup LowerCase \cup UpperCase \cup {"-", ".", ":"}

\* a dotted quad of decimal octets, each at most 255 and written without
\* leading zeros
IsIPv4(s) ==
    /\ MatchIPv4(s) # <<>>
    /\ \A i \in 1..4 :
          /\ ToNat(MatchIPv4(s)[i]) <= 255
          /\ Len(MatchIPv4(s)[i]) > 1 => MatchIPv4(s)[i][1] # "0"

\* number of places where two colons follow each other
DoubleColons(s) ==
    Cardinality({i \in 1..(Len(s) - 1) : s[i] = ":" /\ s[i + 1] = ":"})

\* a colon-separated IPv6 address: groups of one to four hexadecimal
\* digits, eight of them or fewer with one "::", the last two groups
\* possibly written as a dotted quad, and possibly a zone after a %
IsIPv6(s) ==
    LET pct == IndexFrom(s, "%", 1)
        addr == IF pct = 0 THEN s ELSE SubSeq(s, 1, pct - 1)
        zone == IF pct = 0 THEN <<>> ELSE Drop(s, pct)
        parts == Split(addr, ":")
        quad == Len(parts) >= 2 /\ IsIPv4(parts[Len(parts)])
        segs == IF quad THEN SubSeq(parts, 1, Len(parts) - 1) ELSE parts
        full == FilterBoolean(segs)
        count == Len(full) + (IF quad THEN 2 ELSE 0)
    IN  /\ pct # 0 => zone # <<>> /\ \A i \in 1..Len(zone) : zone[i] \in ZoneChars
        /\ Len(addr) >= 2
        /\ \A i \in 1..Len(segs) :
              Len(segs[i]) <= 4 /\ \A k \in 1..Len(segs[i]) : segs[i][k] \in HexDigits
        /\ \/ DoubleColons(addr) = 0 /\ count = 8 /\ Len(full) = Len(segs)
           \/ /\ DoubleColons(addr) = 1
              /\ count <= 7
              /\ addr[1] = ":" => addr[2] = ":"
              /\ addr[Len(addr)] = ":" => addr[Len(addr) - 1] = ":"

\* net.isIP(s) is not 0; ::ffff:a.b.c.d is among the IPv6 forms
Recognized(s) == IsIPv4(s) \/ IsIPv6(s)

----------------------------------------------------------------------------
(* Bounds of the exploration *)

MaxReq == 2       \* POST /api/log exchanges per run, both servers together
MaxTicks == 1     \* seconds per run that pass while no timer of a lookup runs

----------------------------------------------------------------------------
(* Configuration, server.js lines 21-26 *)

IP_HMAC_KEY == "replace_this_with_a_strong_secret"
RETENTION_DAYS == 30
GEOAPI_TIMEOUT_MS == 2500
MAX_LIMIT == 1000
DEFAULT_LIMIT == <<"1", "0", "0">>
DEFAULT_OFFSET == <<"0">>

\* the text of the console.warn of line 206, written when the server listens
\* and IP_HMAC_KEY is not in the environment (the key is then the fallback of
\* line 24).  Its first two code units, U+26A0 U+FE0F, are written by name.
S_KeyWarning ==
    "U+26A0U+FE0F Warning: IP_HMAC_KEY not set in environment. Using default insecure key. Set IP_HMAC_KEY to a strong secret."

----------------------------------------------------------------------------
(* Requests *)

Clients == {"c1", "c2"}

A_v4 == <<"2", "0", "3", ".", "0", ".", "1", "1", "3", ".", "9">>
A_proxy == <<"1", "0", ".", "0", ".", "0", ".", "1">>
A_v6 == <<"2", "0", "0", "1", ":", "d", "b", "8", ":", ":", "1">>
P_home == <<"/", "h", "o", "m", "e">>
UA_1 == <<"M", "o", "z">>

\* What a POST /api/log carries besides its cookies: the X-Forwarded-For
\* header, the peer address of the socket, body.path and the User-Agent.
LogInputs ==
    { [xff |-> Null, remote |-> S_mapped \o A_v4, path |-> P_home, ua |-> UA_1],
      [xff |-> <<" ">> \o A_v4 \o <<",", " ">> \o A_proxy, remote |-> A_proxy,
       path |-> Null, ua |-> Null],
      [xff |-> Null, remote |-> Null, path |-> <<>>, ua |-> UA_1] }

\* the log events whose address cannot be resolved; no lookup is made for
\* them (line 96)
UnknownInputs == {in \in LogInputs : in.xff = Null /\ in.remote = Null}

\* the log events that come through the proxy
ProxiedInputs == {in \in LogInputs : in.xff # Null}

----------------------------------------------------------------------------
(* pseudonymizeIp, server.js lines 87-92 *)

\* HMAC-SHA256 is a function of the key and the message alone; the digest is
\* kept as the pair it is a function of.
\* a digest into which the time of the call enters
pseudonymizeIpSalted(ipRaw) ==
    <<"hmac-sha256", IP_HMAC_KEY, OrElse(ipRaw, <<>>), now>>

pseudonymizeIp(ipRaw) == <<"hmac-sha256", IP_HMAC_KEY, OrElse(ipRaw, <<>>)>>

----------------------------------------------------------------------------
(* geoLookup, server.js lines 94-115 *)

GeoNull == [isNull |-> TRUE, country |-> Null, region |-> Null, city |-> Null]

\* What the provider may send as the body of a 2xx answer: JSON with the three
\* fields, JSON with some of them missing or empty, or text that is no JSON
\* (res.json() rejects).
GeoBodies ==
    { [parses |-> TRUE, country_name |-> <<"N", "L">>, region |-> <<"N", "H">>,
       city |-> <<"A", "m", "s">>],
      [parses |-> TRUE, country_name |-> <<"N", "L">>, region |-> Null,
       city |-> <<>>],
      [parses |-> FALSE, country_name |-> Null, region |-> Null, city |-> Null] }

\* lines 105-109
GeoFromBody(j) ==
    [isNull |-> FALSE,
     country |-> OrElse(j.country_name, Null),
     region |-> OrElse(j.region, Null),
     city |-> OrElse(j.city, Null)]

\* line 96: no request is made for an absent or unknown address
GeoSkips(ip) == Falsy(ip) \/ ip = S_unknown

----------------------------------------------------------------------------
(* Table logs of the pseudonymizing server, server.js lines 52-71 *)

\* INTEGER PRIMARY KEY AUTOINCREMENT: one more than the largest id ever given
NextRowIdStuck(counter) == counter

NextRowId(counter) == counter + 1

\* geo?.country || 'Unknown', as the raw variant fills its columns
GeoColumnUnknown(geo, f) ==
    IF geo.isNull THEN S_Unknown ELSE OrElse(geo[f], S_Unknown)

\* geo?.country || null, line 143
GeoColumn(geo, f) == IF geo.isNull THEN Null ELSE OrElse(geo[f], Null)

\* the row of lines 140-144, with datetime('now') = t
LogRow(id, t, f) ==
    [id |-> id, timestamp |-> t,
     ip_masked |-> f.ipMasked, ip_pseudonym |-> f.ipPseudo,
     country |-> GeoColumn(f.geo, "country"),
     region |-> GeoColumn(f.geo, "region"),
     city |-> GeoColumn(f.geo, "city"),
     path |-> f.pathField, user_agent |-> f.uaField, source |-> "frontend"]

----------------------------------------------------------------------------
(* Numbers of the admin query, server.js lines 166-167 *)

\* a JavaScript number that is an integer, or NaN
NaN == [nan |-> TRUE, v |-> 0]

Num(v) == [nan |-> FALSE, v |-> v]

\* parseInt(s, 10): leading white space, a sign, then the run of digits
ParseInt(s) ==
    LET t == TrimLeft(s)
        neg == t # <<>> /\ Head(t) = "-"
        u == IF t # <<>> /\ Head(t) \in {"-", "+"} THEN Tail(t) ELSE t
        n == DigitRun(u, 1)
    IN  IF n = 0 THEN NaN
        ELSE Num(IF neg THEN 0 - ToNat(SubSeq(u, 1, n)) ELSE ToNat(SubSeq(u, 1, n)))

\* Math.min and Math.max: NaN if an argument is NaN
MathMin(a, b) ==
    IF a.nan \/ b.nan THEN NaN ELSE IF a.v <= b.v THEN a ELSE b

MathMax(a, b) ==
    IF a.nan \/ b.nan THEN NaN ELSE IF a.v >= b.v THEN a ELSE b

\* line 166
EffectiveLimit(lq) == MathMin(ParseInt(OrElse(lq, DEFAULT_LIMIT)), Num(MAX_LIMIT))

\* line 167
EffectiveOffset(oq) == MathMax(ParseInt(OrElse(oq, DEFAULT_OFFSET)), Num(0))

\* The frame of a GET /admin/logs: the query strings limit and offset, the
\* numbers of lines 166-167 once they are computed, the rows of line 168,
\* the count of line 169 and the status of the answer.
NoAdmin == [pc |-> "idle"]

\* line 165: the handler waits for dbPromise
AdminWaiting(lq, oq) ==
    [pc |-> "await_db", lq |-> lq, oq |-> oq, limit |-> NaN, offset |-> NaN,
     rows |-> <<>>, status |-> 0, total |-> 0]

\* lines 166-168: limit and offset are computed and db.all is called
AdminResumed(a) ==
    [a EXCEPT !.pc = "rows", !.limit = EffectiveLimit(a.lq),
              !.offset = EffectiveOffset(a.oq)]

\* the catch of lines 171-174
AdminCaught(a) == [a EXCEPT !.pc = "done", !.status = 500, !.rows = <<>>]

----------------------------------------------------------------------------
(* POST /api/log, server.js lines 127-153 *)

\* req.body?.path || req.originalUrl || '/'; the route's originalUrl is /api/log
PathField(path) == OrElse(OrElse(path, S_apilog), S_slash)

\* lines 130-138 up to the first await inside geoLookup
Computed(f) ==
    LET rawIp == rawIpOf(f.xff, f.remote)
    IN  [f EXCEPT !.rawIp = rawIp,
                  !.ipMasked = maskIp(rawIp),
                  !.ipPseudo = pseudonymizeIp(rawIp),
                  !.pathField = PathField(f.path),
                  !.uaField = OrElse(f.ua, Null),
                  !.pc = IF GeoSkips(rawIp) THEN "db_run" ELSE "fetch",
                  !.timer = IF GeoSkips(rawIp) THEN "none" ELSE "armed",
                  !.armedAt = IF GeoSkips(rawIp) THEN 0 ELSE now,
                  !.fetches = IF GeoSkips(rawIp) THEN 0 ELSE 1,
                  !.geoOutcome = IF GeoSkips(rawIp) THEN "skipped" ELSE "none"]

\* the catch of lines 149-152: res.status(500).json({ success: false }); the
\* console.error of line 150 is written by the step that gets here
Caught(f) == [f EXCEPT !.pc = "done", !.acks = Append(f.acks, 500)]

\* a handler that loses the error of db.run and answers 200
FailedUnnoticed(f) ==
    [f EXCEPT !.storeErr = TRUE, !.pc = "done", !.acks = Append(f.acks, 200)]

\* db.run rejected: storeErr records that the store refused this INSERT
Failed(f) == Caught([f EXCEPT !.storeErr = TRUE])

\* line 148: res.status(200).json({ success: true, ip_masked: ipMasked })
Answered(f) ==
    [f EXCEPT !.pc = "done", !.acks = Append(f.acks, 200),
              !.ackMasked = f.ipMasked]

\* A frame holds the request and the handler's locals.  cookie: the request
\* carries the consent cookie of the browser that sent it; fetches: requests
\* made to the provider; rowid: the id the INSERT was given, 0 before;
\* acks: the status codes sent, in order; ackMasked: ip_masked of the answer;
\* armedAt: the second in which the running timer of line 98 was armed.
NewFrame(c, in) ==
    [cookie |-> jar[c],
     xff |-> in.xff, remote |-> in.remote, path |-> in.path, ua |-> in.ua,
     pc |-> "await_db", rawIp |-> Null, ipMasked |-> Null,
     ipPseudo |-> pseudonymizeIp(Null), pathField |-> Null, uaField |-> Null,
     timer |-> "none", armedAt |-> 0, geoOutcome |-> "none", geo |-> GeoNull,
     fetches |-> 0, storeErr |-> FALSE, rowid |-> 0, acks |-> <<>>,
     ackMasked |-> Null]

\* the frame after geoLookup has settled with `geo`: line 138, then db.run is
\* issued (lines 140-144)
Settled(f, outcome, geo, timer) ==
    [f EXCEPT !.pc = "db_run", !.geoOutcome = outcome, !.geo = geo,
              !.timer = timer, !.armedAt = 0]


\* RETENTION_DAYS * 24 * 60 * 60 seconds: '-30 days' of line 190, and line 187
HorizonSeconds == RETENTION_DAYS * 24 * 60 * 60

\* A frame of retentionDeleteOldLogs, lines 183-196, called at time t.
\* cutoff is the local cutoffDate of line 187, in seconds; nothing reads it.
NewSweep(t) == [pc |-> "await_db", called |-> t, cutoff |-> 0]

\* lines 186-190: past the await, up to db.run
Started(sw, t) == [sw EXCEPT !.pc = "deleting", !.cutoff = t - HorizonSeconds]

\* the frames fs, those that waited for dbPromise resumed at line 130
RECURSIVE ResumeAll(_)
ResumeAll(fs) ==
    IF fs = <<>> THEN <<>>
    ELSE <<IF Head(fs).pc = "await_db" THEN Computed(Head(fs)) ELSE Head(fs)>>
         \o ResumeAll(Tail(fs))

\* q without the entry of continuation n of kind `kind`
Without(q, kind, n) == SelectSeq(q, LAMBDA w : ~(w.kind = kind /\ w.n = n))

\* the first argument of the console.error of a continuation that waited
\* for dbPromise when open() rejects: lines 150, 172 and 193
WaiterError(w) ==
    CASE w.kind = "log" -> "Error in /api/log:"
      [] w.kind = "admin" -> "admin/logs error"
      [] w.kind = "sweep" -> "Retention job failed:"

\* Opening the database, line 47, and what waits for it.  When open()
\* settles, every continuation of `await dbPromise` runs before any other
\* event is handled: initDb (line 53) issues CREATE TABLE, the sweeps, the
\* log events and the admin query go on from their await.  `waiting` keeps
\* the continuations that issued their statement in this turn (a sweep, the
\* admin query, a log event that makes no lookup).
OpenOk ==
    /\ alive /\ dbPromise = "pending"
    /\ dbPromise' = "resolved"
    /\ reqs' = ResumeAll(reqs)
    /\ sweeps' = [s \in DOMAIN sweeps |->
                    IF sweeps[s].pc = "await_db" THEN Started(sweeps[s], now)
                    ELSE sweeps[s]]
    /\ admin' = IF admin.pc = "await_db" THEN AdminResumed(admin) ELSE admin
    /\ waiting' = SelectSeq(waiting, LAMBDA w :
                      w.kind = "log" => ResumeAll(reqs)[w.n].pc = "db_run")
    /\ initDb' = "table"
    /\ UNCHANGED <<now, nticks, jar, logs, seq, alive, rreqs, rlogs, ipLog,
                   console, calls, indexed, mreqs>>

\* db.exec runs its statement alone: the CREATE TABLE of line 54 was issued
\* first and the statements issued after it are applied once it is done
TableMade == initDb \in {"index_time", "index_pseudonym", "done"}

\* the CREATE TABLE of line 54 is done; initDb issues the CREATE INDEX of
\* line 68, which db.exec runs when no statement is pending
TableCreated ==
    /\ alive /\ initDb = "table"
    /\ initDb' = "index_time"
    /\ UNCHANGED <<now, nticks, jar, reqs, logs, seq, dbPromise, alive, rreqs,
                   rlogs, ipLog, admin, sweeps, console, calls, indexed,
                   waiting, mreqs>>

\* the store rejects the CREATE TABLE of line 54: initDb has no catch, and
\* Node ends the process on its unhandled rejection
TableFail ==
    /\ alive /\ initDb = "table"
    /\ initDb' = "failed"
    /\ alive' = FALSE
    /\ UNCHANGED <<now, nticks, jar, reqs, logs, seq, dbPromise, rreqs, rlogs,
                   ipLog, admin, sweeps, console, calls, indexed, waiting,
                   mreqs>>

\* open() rejects.  The catch of every handler and sweep that waited runs,
\* in the order they began to wait; initDb, lines 52-71, has none, and Node
\* ends the process on its unhandled rejection.
OpenFail ==
    /\ alive /\ dbPromise = "pending"
    /\ dbPromise' = "rejected"
    /\ reqs' = [r \in DOMAIN reqs |->
                  IF reqs[r].pc = "await_db" THEN Caught(reqs[r]) ELSE reqs[r]]
    /\ sweeps' = [s \in DOMAIN sweeps |->
                    IF sweeps[s].pc = "await_db"
                    THEN [sweeps[s] EXCEPT !.pc = "failed"] ELSE sweeps[s]]
    /\ admin' = IF admin.pc = "await_db" THEN AdminCaught(admin) ELSE admin
    /\ console' = console \o [k \in DOMAIN waiting |-> WaiterError(waiting[k])]
    /\ waiting' = <<>>
    /\ initDb' = "failed"
    /\ alive' = FALSE
    /\ UNCHANGED <<now, nticks, jar, logs, seq, rreqs, rlogs, ipLog, calls,
                   indexed, mreqs>>

\* the CREATE INDEX of line 68 is done: idx_logs_time exists, and the
\* statements that were applied before have run without it.  initDb issues
\* the CREATE INDEX of line 69.
IndexCreated ==
    /\ alive /\ initDb = "index_time" /\ waiting = <<>>
    /\ indexed' = TRUE
    /\ initDb' = "index_pseudonym"
    /\ UNCHANGED <<now, nticks, jar, reqs, logs, seq, dbPromise, alive, rreqs,
                   rlogs, ipLog, admin, sweeps, console, calls, waiting,
                   mreqs>>

\* the CREATE INDEX of line 69 is done; line 70 writes to the standard
\* output and initDb ends
PseudonymIndexCreated ==
    /\ alive /\ initDb = "index_pseudonym" /\ waiting = <<>>
    /\ initDb' = "done"
    /\ UNCHANGED <<now, nticks, jar, reqs, logs, seq, dbPromise, alive, rreqs,
                   rlogs, ipLog, admin, sweeps, console, calls, indexed,
                   waiting, mreqs>>

\* the store rejects the CREATE INDEX that is due, that of line 68 or that
\* of line 69.  initDb has no catch and the process ends.
IndexFail ==
    /\ alive /\ initDb \in {"index_time", "index_pseudonym"} /\ waiting = <<>>
    /\ initDb' = "failed"
    /\ alive' = FALSE
    /\ UNCHANGED <<now, nticks, jar, reqs, logs, seq, dbPromise, rreqs, rlogs,
                   ipLog, admin, sweeps, console, calls, indexed, waiting,
                   mreqs>>

\* The browser of client c sends a log event; the handler runs to its first
\* await that suspends.
Arrive(c, in) ==
    /\ alive /\ Len(reqs) + Len(rreqs) < MaxReq
    /\ reqs' = Append(reqs, IF dbPromise = "resolved"
                            THEN Computed(NewFrame(c, in))
                            ELSE NewFrame(c, in))
    /\ waiting' = IF dbPromise = "resolved" THEN waiting
                  ELSE Append(waiting, [kind |-> "log", n |-> Len(reqs) + 1])
    /\ UNCHANGED <<now, nticks, jar, logs, seq, dbPromise, alive, rreqs,
                   rlogs, ipLog, admin, sweeps, console, calls, indexed,
                   mreqs, initDb>>

\* fetch resolves with the response head: lines 101-104
FetchHeaders(r, ok) ==
    /\ alive /\ r \in DOMAIN reqs /\ reqs[r].pc = "fetch"
    /\ reqs' = [reqs EXCEPT ![r] =
                  IF ok THEN [@ EXCEPT !.pc = "body", !.timer = "cleared",
                                       !.armedAt = 0]
                  ELSE Settled(@, "non2xx", GeoNull, "cleared")]
    /\ UNCHANGED <<now, nticks, jar, logs, seq, dbPromise, alive, rreqs,
                   rlogs, ipLog, admin, sweeps, console, calls, indexed,
                   waiting, mreqs, initDb>>

\* fetch rejects (DNS, connection, TLS): lines 110-114
FetchFail(r) ==
    /\ alive /\ r \in DOMAIN reqs /\ reqs[r].pc = "fetch"
    /\ reqs' = [reqs EXCEPT ![r] = Settled(@, "network", GeoNull, "cleared")]
    /\ UNCHANGED <<now, nticks, jar, logs, seq, dbPromise, alive, rreqs,
                   rlogs, ipLog, admin, sweeps, console, calls, indexed,
                   waiting, mreqs, initDb>>

\* the request came at some millisecond of second armedAt, and its timer
\* fires GEOAPI_TIMEOUT_MS later: TimerDue(f, s) when that can be in second s
TimerDue(f, s) ==
    /\ 1000 * (s - f.armedAt) + 999 >= GEOAPI_TIMEOUT_MS
    /\ 1000 * (s - f.armedAt) <= 999 + GEOAPI_TIMEOUT_MS

\* the timer of frame f is running
Armed(f) == alive /\ f.pc = "fetch" /\ f.timer = "armed"

\* the timer of line 98 fires: controller.abort() rejects the pending fetch,
\* and the catch of lines 110-114 returns null
TimerFire(r) ==
    /\ r \in DOMAIN reqs /\ Armed(reqs[r]) /\ TimerDue(reqs[r], now)
    /\ reqs' = [reqs EXCEPT ![r] = Settled(@, "timeout", GeoNull, "fired")]
    /\ UNCHANGED <<now, nticks, jar, logs, seq, dbPromise, alive, rreqs,
                   rlogs, ipLog, admin, sweeps, console, calls, indexed,
                   waiting, mreqs, initDb>>

\* res.json() settles: lines 104-109, or the catch when the body is no JSON
BodyDone(r, j) ==
    /\ alive /\ r \in DOMAIN reqs /\ reqs[r].pc = "body"
    /\ reqs' = [reqs EXCEPT ![r] =
                  IF j.parses THEN Settled(@, "ok", GeoFromBody(j), @.timer)
                  ELSE Settled(@, "malformed", GeoNull, @.timer)]
    /\ UNCHANGED <<now, nticks, jar, logs, seq, dbPromise, alive, rreqs,
                   rlogs, ipLog, admin, sweeps, console, calls, indexed,
                   waiting, mreqs, initDb>>

\* SQLite applies the INSERT of lines 140-144
DbRunOk(r) ==
    /\ alive /\ TableMade /\ r \in DOMAIN reqs /\ reqs[r].pc = "db_run"
    /\ LET id == NextRowId(seq)
       IN  /\ logs' = Append(logs, LogRow(id, now, reqs[r]))
           /\ seq' = id
           /\ reqs' = [reqs EXCEPT ![r].pc = "db_ok", ![r].rowid = id]
    /\ waiting' = Without(waiting, "log", r)
    /\ UNCHANGED <<now, nticks, jar, dbPromise, alive, rreqs, rlogs, ipLog,
                   admin, sweeps, console, calls, indexed, mreqs, initDb>>

\* SQLite rejects the INSERT (disk full, locked, no such table): nothing is
\* stored, and the catch of lines 149-152 answers
DbRunErr(r) ==
    /\ alive /\ TableMade /\ r \in DOMAIN reqs /\ reqs[r].pc = "db_run"
    /\ reqs' = [reqs EXCEPT ![r] = Failed(@)]
    /\ console' = Append(console, "Error in /api/log:")
    /\ waiting' = Without(waiting, "log", r)
    /\ UNCHANGED <<now, nticks, jar, logs, seq, dbPromise, alive, rreqs,
                   rlogs, ipLog, admin, sweeps, calls, indexed, mreqs,
                   initDb>>

\* a continuation that runs only when no lookup is pending, as in a server
\* that makes its lookups synchronously
RespondAfterLookups(r) ==
    /\ alive /\ r \in DOMAIN reqs /\ reqs[r].pc = "db_ok"
    /\ \A o \in DOMAIN reqs : reqs[o].pc \notin {"fetch", "body"}
    /\ reqs' = [reqs EXCEPT ![r] = Answered(@)]
    /\ UNCHANGED <<now, nticks, jar, logs, seq, dbPromise, alive, rreqs,
                   rlogs, ipLog, admin, sweeps, console, calls, indexed,
                   waiting, mreqs, initDb>>

\* the continuation after `await db.run`: lines 146-148
Respond(r) ==
    /\ alive /\ r \in DOMAIN reqs /\ reqs[r].pc = "db_ok"
    /\ reqs' = [reqs EXCEPT ![r] = Answered(@)]
    /\ UNCHANGED <<now, nticks, jar, logs, seq, dbPromise, alive, rreqs,
                   rlogs, ipLog, admin, sweeps, console, calls, indexed,
                   waiting, mreqs, initDb>>

\* one second passes.  A timer that is running fires before the last second
\* in which it can; MaxTicks bounds the seconds in which no timer runs.
Tick ==
    /\ nticks < MaxTicks \/ \E r \in DOMAIN reqs : Armed(reqs[r])
    /\ \A r \in DOMAIN reqs :
          Armed(reqs[r]) => \E s \in (now + 1)..(now + 4) : TimerDue(reqs[r], s)
    /\ now' = now + 1
    /\ nticks' = IF \E r \in DOMAIN reqs : Armed(reqs[r]) THEN nticks
                  ELSE nticks + 1
    /\ UNCHANGED <<jar, reqs, logs, seq, dbPromise, alive, rreqs, rlogs,
                   ipLog, admin, sweeps, console, calls, indexed, waiting,
                   mreqs, initDb>>

\* a second passes while a lookup waits for the provider
TimerTick == (\E r \in DOMAIN reqs : Armed(reqs[r])) /\ Tick

----------------------------------------------------------------------------
(* The retention job, server.js lines 183-200 *)

MaxCron == 1      \* daily triggers of a run
MaxIdle == 1      \* long quiet periods of a run

\* the rows DELETE ... WHERE timestamp <= datetime('now','-30 days') leaves,
\* run at time t
AfterDelete(table, t) ==
    SelectSeq(table, LAMBDA row : ~(row.timestamp <= t - HorizonSeconds))

\* line 198: the cron trigger calls retentionDeleteOldLogs
CronFire ==
    /\ alive /\ Len(sweeps) < 1 + MaxCron
    /\ sweeps' = Append(sweeps, IF dbPromise = "resolved"
                                THEN Started(NewSweep(now), now)
                                ELSE NewSweep(now))
    /\ waiting' = IF dbPromise = "resolved" THEN waiting
                  ELSE Append(waiting, [kind |-> "sweep", n |-> Len(sweeps) + 1])
    /\ UNCHANGED <<now, nticks, jar, reqs, logs, seq, dbPromise, alive, rreqs,
                   rlogs, ipLog, admin, console, calls, indexed, mreqs,
                   initDb>>

\* SQLite applies the DELETE of line 190
SweepDeleteOk(s) ==
    /\ alive /\ TableMade /\ s \in DOMAIN sweeps /\ sweeps[s].pc = "deleting"
    /\ logs' = AfterDelete(logs, now)
    /\ sweeps' = [sweeps EXCEPT ![s].pc = "deleted"]
    /\ waiting' = Without(waiting, "sweep", s)
    /\ UNCHANGED <<now, nticks, jar, reqs, seq, dbPromise, alive, rreqs,
                   rlogs, ipLog, admin, console, calls, indexed, mreqs,
                   initDb>>

\* the continuation after `await db.run`: line 191 writes to the standard
\* output and the sweep ends
SweepEnd(s) ==
    /\ alive /\ s \in DOMAIN sweeps /\ sweeps[s].pc = "deleted"
    /\ sweeps' = [sweeps EXCEPT ![s].pc = "done"]
    /\ UNCHANGED <<now, nticks, jar, reqs, logs, seq, dbPromise, alive, rreqs,
                   rlogs, ipLog, admin, console, calls, indexed, waiting,
                   mreqs, initDb>>

\* SQLite rejects the DELETE; the catch of lines 192-194 logs
SweepDeleteErr(s) ==
    /\ alive /\ TableMade /\ s \in DOMAIN sweeps /\ sweeps[s].pc = "deleting"
    /\ sweeps' = [sweeps EXCEPT ![s].pc = "failed"]
    /\ waiting' = Without(waiting, "sweep", s)
    /\ console' = Append(console, "Retention job failed:")
    /\ UNCHANGED <<now, nticks, jar, reqs, logs, seq, dbPromise, alive, rreqs,
                   rlogs, ipLog, admin, calls, indexed, mreqs, initDb>>

\* nothing waits for the store or for the provider: the process has ended,
\* or every handler and sweep it has started is finished.  What a process
\* that was stopped has left unfinished ("lost") waits for nothing.
Quiet ==
    \/ ~alive
    \/ /\ dbPromise # "pending"
       /\ \A r \in DOMAIN reqs : reqs[r].pc \in {"done", "lost"}
       /\ \A s \in DOMAIN sweeps : sweeps[s].pc \in {"done", "failed", "lost"}
       /\ admin.pc \in {"idle", "done"}
       /\ initDb \in {"done", "failed"}

\* a quiet period one second short of the retention horizon
Idle ==
    /\ Quiet
    /\ now < MaxIdle * (HorizonSeconds - 1)
    /\ now' = now + (HorizonSeconds - 1)
    /\ UNCHANGED <<nticks, jar, reqs, logs, seq, dbPromise, alive, rreqs,
                   rlogs, ipLog, admin, sweeps, console, calls, indexed,
                   waiting, mreqs, initDb>>

----------------------------------------------------------------------------
(* The consent button, part_000 lines 41-54.  The handler of POST           *)
(* /api/consent is not among the sources; section 4.4 of the specification  *)
(* says it sets a long-lived cookie in the client's browser and always      *)
(* succeeds.                                                                *)

Consent(c) ==
    /\ ~jar[c]
    /\ jar' = [jar EXCEPT ![c] = TRUE]
    /\ UNCHANGED <<now, nticks, reqs, logs, seq, dbPromise, alive, rreqs,
                   rlogs, ipLog, admin, sweeps, console, calls, indexed,
                   waiting, mreqs, initDb>>

----------------------------------------------------------------------------
(* The steps the pseudonymizing server takes on its own *)

\* open() settles and initDb runs, lines 47-71
InitDbSteps ==
    \/ OpenOk
    \/ OpenFail
    \/ TableCreated
    \/ TableFail
    \/ IndexCreated
    \/ PseudonymIndexCreated
    \/ IndexFail

\* a sweep that was called goes on, lines 190-194
SweepSteps ==
    \E s \in DOMAIN sweeps :
        \/ SweepDeleteOk(s)
        \/ SweepDeleteErr(s)
        \/ SweepEnd(s)

\* a log event that has arrived goes on, lines 94-152
LogSteps ==
    \E r \in DOMAIN reqs :
        \/ \E ok \in BOOLEAN : FetchHeaders(r, ok)
        \/ FetchFail(r)
        \/ TimerFire(r)
        \/ \E j \in GeoBodies : BodyDone(r, j)
        \/ DbRunOk(r)
        \/ DbRunErr(r)
        \/ Respond(r)

----------------------------------------------------------------------------
(* SpecLog: the pseudonymizing server from its start, with log events sent  *)
(* from behind the proxy or with no address.  Seconds pass while a lookup   *)
(* waits for the provider.                                                  *)

\* Lines 1-208 have been evaluated, over the table an earlier run has left
\* in ip_store.db.  Line 47 calls open, a name that is not among those the
\* imports of lines 5-15 bind.
\*  - Where nothing binds the name, line 47 throws a ReferenceError and the
\*    process ends there: no initDb, no route, no schedule, no startup sweep,
\*    no listener, no warning.
\*  - Where the name is bound to open of package sqlite, whose call line 47
\*    writes, the module is evaluated to its end and the server listens:
\*    initDb and the startup sweep of line 200 wait for open(), and the
\*    callback of app.listen has warned that the key is the fallback of
\*    line 24 (line 206).
ModuleLoaded(table, hasIndex) ==
    /\ now = 0 /\ nticks = 0
    /\ jar = [c \in Clients |-> FALSE]
    /\ reqs = <<>> /\ logs = table /\ seq = Len(table)
    /\ dbPromise = "pending" /\ initDb = "await_db"
    /\ rreqs = <<>> /\ rlogs = <<>> /\ ipLog = <<>>
    /\ admin = NoAdmin
    /\ indexed = hasIndex
    /\ calls = <<>> /\ mreqs = <<>>
    /\ \/ /\ alive = FALSE /\ console = <<>>
          /\ sweeps = <<>> /\ waiting = <<>>
       \/ /\ alive = TRUE /\ console = <<S_KeyWarning>>
          /\ sweeps = <<NewSweep(0)>>
          /\ waiting = <<[kind |-> "sweep", n |-> 1]>>

\* the first start of the server: ip_store.db is new
InitLog == ModuleLoaded(<<>>, FALSE)

NextLog ==
    \/ InitDbSteps
    \/ SweepSteps
    \/ \E in \in ProxiedInputs \cup UnknownInputs : Arrive("c1", in)
    \/ LogSteps
    \/ TimerTick

SpecLog == InitLog /\ [][NextLog]_vars

\* SpecConsent: log events of clients that may press the consent button, in
\* the runs where the store accepts every statement and the provider cannot
\* be reached
NextConsent ==
    \/ OpenOk
    \/ TableCreated
    \/ \E c \in Clients : Consent(c)
    \/ \E c \in Clients, in \in LogInputs : Arrive(c, in)
    \/ \E r \in DOMAIN reqs : FetchFail(r)
    \/ \E r \in DOMAIN reqs : DbRunOk(r)
    \/ \E r \in DOMAIN reqs : Respond(r)

SpecConsent == InitLog /\ [][NextConsent]_vars


\* FairLog: SpecLog under the scheduling node and SQLite guarantee.  Time
\* passes while a timer runs, an armed timer fires when it is due, open()
\* settles, a statement that was issued settles, and a continuation that is
\* ready runs.  Nothing obliges the provider to answer.
FairLog ==
    /\ SpecLog
    /\ WF_vars(TimerTick)
    /\ WF_vars(OpenFail \/ OpenOk)
    /\ WF_vars(TableCreated \/ TableFail)
    /\ WF_vars(IndexCreated \/ PseudonymIndexCreated \/ IndexFail)
    /\ WF_vars(SweepDeleteOk(1) \/ SweepDeleteErr(1))
    /\ WF_vars(SweepEnd(1))
    /\ \A r \in 1..MaxReq :
          /\ WF_vars(TimerFire(r))
          /\ WF_vars(DbRunOk(r) \/ DbRunErr(r))
          /\ WF_vars(Respond(r))


----------------------------------------------------------------------------
(* POST /api/log of the raw variant, server.js lines 256-295.  It is a     *)
(* server of its own: `alive` and dbPromise belong to the pseudonymizing    *)
(* server, and nothing in lines 228-295 ends the process.                   *)

\* index of the first occurrence of p in s at or after i, 0 if none
RECURSIVE IndexOfSub(_, _, _)
IndexOfSub(s, p, i) ==
    IF i + Len(p) - 1 > Len(s) THEN 0
    ELSE IF SubSeq(s, i, i + Len(p) - 1) = p THEN i
    ELSE IndexOfSub(s, p, i + 1)

\* s.replace('::ffff:', ''): the first occurrence, wherever it is
RemoveFirstMapped(s) ==
    LET k == IndexOfSub(s, S_mapped, 1)
    IN  IF k = 0 THEN s
        ELSE SubSeq(s, 1, k - 1) \o Drop(s, k + Len(S_mapped) - 1)

\* line 260
RawVariantIp(xff, remote) ==
    LET a == IF ~Falsy(xff) THEN Split(xff, ",")[1] ELSE remote
    IN  OrElse(IF a = Null THEN Null ELSE RemoveFirstMapped(a), S_Unknown)

\* lines 259-266: the locals, then fetch without signal or timer
NewRawFrame(c, in) ==
    [cookie |-> jar[c],
     xff |-> in.xff, remote |-> in.remote, path |-> in.path,
     pc |-> "fetch",
     ip |-> RawVariantIp(in.xff, in.remote),
     pathField |-> OrElse(in.path, S_slash),
     country |-> S_Unknown, region |-> S_Unknown, city |-> S_Unknown,
     fetches |-> 1, storeErr |-> FALSE, rowid |-> 0, acks |-> <<>>]

\* the row of lines 278-280; timestamp DEFAULT CURRENT_TIMESTAMP = t
RawRow(id, t, f) ==
    [id |-> id, ip |-> f.ip, country |-> f.country, region |-> f.region,
     city |-> f.city, path |-> f.pathField, timestamp |-> t]

ArriveRaw(c, in) ==
    /\ Len(reqs) + Len(rreqs) < MaxReq
    /\ rreqs' = Append(rreqs, NewRawFrame(c, in))
    /\ UNCHANGED <<now, nticks, jar, reqs, logs, seq, dbPromise, alive, rlogs,
                   ipLog, admin, sweeps, console, calls, indexed, waiting,
                   mreqs, initDb>>

\* lines 266-267: fetch resolves with the response head
FetchHeadersRaw(r, ok) ==
    /\ r \in DOMAIN rreqs /\ rreqs[r].pc = "fetch"
    /\ rreqs' = [rreqs EXCEPT ![r].pc = IF ok THEN "body" ELSE "db_run"]
    /\ UNCHANGED <<now, nticks, jar, reqs, logs, seq, dbPromise, alive, rlogs,
                   ipLog, admin, sweeps, console, calls, indexed, waiting,
                   mreqs, initDb>>

\* lines 273-275: fetch rejects
FetchFailRaw(r) ==
    /\ r \in DOMAIN rreqs /\ rreqs[r].pc = "fetch"
    /\ rreqs' = [rreqs EXCEPT ![r].pc = "db_run"]
    /\ console' = Append(console, "GeoIP lookup failed:")
    /\ UNCHANGED <<now, nticks, jar, reqs, logs, seq, dbPromise, alive, rlogs,
                   ipLog, admin, sweeps, calls, indexed, waiting, mreqs,
                   initDb>>

\* lines 268-275: geoRes.json() settles
BodyDoneRaw(r, j) ==
    /\ r \in DOMAIN rreqs /\ rreqs[r].pc = "body"
    /\ rreqs' = [rreqs EXCEPT ![r] =
                   IF j.parses
                   THEN [@ EXCEPT !.pc = "db_run",
                                  !.country = OrElse(j.country_name, S_Unknown),
                                  !.region = OrElse(j.region, S_Unknown),
                                  !.city = OrElse(j.city, S_Unknown)]
                   ELSE [@ EXCEPT !.pc = "db_run"]]
    /\ console' = IF j.parses THEN console
                  ELSE Append(console, "GeoIP lookup failed:")
    /\ UNCHANGED <<now, nticks, jar, reqs, logs, seq, dbPromise, alive, rlogs,
                   ipLog, admin, sweeps, calls, indexed, waiting, mreqs,
                   initDb>>

\* SQLite applies the INSERT of lines 278-280; no row of this table is ever
\* deleted, so the AUTOINCREMENT counter is the number of rows
DbRunOkRaw(r) ==
    /\ r \in DOMAIN rreqs /\ rreqs[r].pc = "db_run"
    /\ LET id == NextRowId(Len(rlogs))
       IN  /\ rlogs' = Append(rlogs, RawRow(id, now, rreqs[r]))
           /\ rreqs' = [rreqs EXCEPT ![r].pc = "db_ok", ![r].rowid = id]
    /\ UNCHANGED <<now, nticks, jar, reqs, logs, seq, dbPromise, alive, ipLog,
                   admin, sweeps, console, calls, indexed, waiting, mreqs,
                   initDb>>

\* SQLite rejects the INSERT: the callback of lines 281-284 answers 500
DbRunErrRaw(r) ==
    /\ r \in DOMAIN rreqs /\ rreqs[r].pc = "db_run"
    /\ rreqs' = [rreqs EXCEPT ![r].pc = "done", ![r].storeErr = TRUE,
                               ![r].acks = Append(@, 500)]
    /\ console' = Append(console, "Logging failed:")
    /\ UNCHANGED <<now, nticks, jar, reqs, logs, seq, dbPromise, alive, rlogs,
                   ipLog, admin, sweeps, calls, indexed, waiting, mreqs,
                   initDb>>

\* the callback of lines 285-288
RespondRaw(r) ==
    /\ r \in DOMAIN rreqs /\ rreqs[r].pc = "db_ok"
    /\ rreqs' = [rreqs EXCEPT ![r].pc = "done", ![r].acks = Append(@, 200)]
    /\ UNCHANGED <<now, nticks, jar, reqs, logs, seq, dbPromise, alive, rlogs,
                   ipLog, admin, sweeps, console, calls, indexed, waiting,
                   mreqs, initDb>>

(* SpecRaw: the log events of the raw variant *)

RawSteps ==
    \E r \in DOMAIN rreqs :
        \/ \E ok \in BOOLEAN : FetchHeadersRaw(r, ok)
        \/ FetchFailRaw(r)
        \/ \E j \in GeoBodies : BodyDoneRaw(r, j)
        \/ DbRunOkRaw(r)
        \/ DbRunErrRaw(r)
        \/ RespondRaw(r)

NextRaw ==
    \/ \E c \in Clients, in \in LogInputs : ArriveRaw(c, in)
    \/ RawSteps
    \/ Tick

SpecRaw == InitLog /\ [][NextRaw]_vars

(* SpecBoth: the two servers side by side, MaxReq log events between them *)

NextBoth == NextLog \/ NextRaw

SpecBoth == InitLog /\ [][NextBoth]_vars

----------------------------------------------------------------------------
(* The middleware server, part_001 *)

MaxLines == 1     \* requests the middleware server handles per run

Octets == {<<"7">>, <<"2", "5">>, <<"1", "9", "2">>}

Groups == {<<"2", "0", "0", "1">>, <<"d", "b", "8">>, <<"1">>}

V4Pool == {Join(<<a, b, c, d>>, ".") : a, b \in Octets, c, d \in {<<"0">>, <<"4", "2">>}}

V6Pool ==
    {Join(<<g1, g2, <<>>, g3>>, ":") : g1, g2, g3 \in Groups}
        \cup {<<":", ":">> \o g : g \in Groups}
        \cup {Join(<<g1, <<>>, g2>>, ":") : g1, g2 \in Groups}
        \cup {Join(<<g1, g2, <<"0">>, <<"0">>, <<"0">>, <<"0">>, <<"0">>, g3>>, ":") :
                  g1, g2, g3 \in Groups}

MappedPool == {S_mapped \o a : a \in V4Pool}

\* X-Forwarded-For as proxies write it: one address, or a list
XffPool ==
    {Null} \cup {a \o <<",", " ">> \o A_proxy : a \in {A_v4, A_v6}} \cup {A_v4, A_v6}

PeerPool == V4Pool \cup V6Pool \cup MappedPool \cup {Null}

\* A request to the middleware server.  express.static (line 9) comes
\* first: a request it answers with a file of public/ never reaches the
\* middleware (isFile).  Otherwise lines 12-21: the entry is made with the
\* time of the request, fs.appendFile is called and next() goes on without
\* waiting for it.  `from` is the address the line was made from (the file
\* holds only the time and `masked`).
Middleware(xff, remote, isFile) ==
    /\ Len(mreqs) < MaxLines
    /\ LET ip == MiddlewareIp(xff, remote)
       IN  mreqs' = Append(mreqs,
                       IF isFile
                       THEN [pc |-> "static", ts |-> now, from |-> Null,
                             masked |-> Null]
                       ELSE [pc |-> "writing", ts |-> now, from |-> ip,
                             masked |-> MiddlewareMask(ip)])
    /\ UNCHANGED <<now, nticks, jar, reqs, logs, seq, dbPromise, alive, rreqs,
                   rlogs, ipLog, admin, sweeps, console, calls, indexed,
                   waiting, initDb>>

\* an append of line 17 completes: the line is in ip-log.txt.  The appends
\* that are pending complete in any order.
AppendDone(r) ==
    /\ r \in DOMAIN mreqs /\ mreqs[r].pc = "writing"
    /\ mreqs' = [mreqs EXCEPT ![r].pc = "written"]
    /\ ipLog' = Append(ipLog, [ts |-> mreqs[r].ts, from |-> mreqs[r].from,
                               masked |-> mreqs[r].masked])
    /\ UNCHANGED <<now, nticks, jar, reqs, logs, seq, dbPromise, alive, rreqs,
                   rlogs, admin, sweeps, console, calls, indexed, waiting,
                   initDb>>

\* an append fails: the callback of lines 17-19 logs it
AppendErr(r) ==
    /\ r \in DOMAIN mreqs /\ mreqs[r].pc = "writing"
    /\ mreqs' = [mreqs EXCEPT ![r].pc = "failed"]
    /\ console' = Append(console, "Error logging IP:")
    /\ UNCHANGED <<now, nticks, jar, reqs, logs, seq, dbPromise, alive, rreqs,
                   rlogs, ipLog, admin, sweeps, calls, indexed, waiting,
                   initDb>>

NextMw ==
    \/ \E xff \in XffPool, remote \in PeerPool, isFile \in BOOLEAN :
          Middleware(xff, remote, isFile)
    \/ \E r \in DOMAIN mreqs : AppendDone(r)
    \/ \E r \in DOMAIN mreqs : AppendErr(r)
    \/ Tick

SpecMw == InitLog /\ [][NextMw]_vars

----------------------------------------------------------------------------
(* SELECT * FROM logs ORDER BY timestamp DESC LIMIT ? OFFSET ?, line 168 *)

Reverse(s) == [i \in 1..Len(s) |-> s[Len(s) + 1 - i]]

\* row a comes before row b in index idx_logs_time of line 68: an index
\* entry is the pair (timestamp, rowid)
IndexBefore(a, b) ==
    \/ a.timestamp < b.timestamp
    \/ a.timestamp = b.timestamp /\ a.id < b.id

\* without the index SQLite scans the table by rowid and sorts by timestamp
\* alone; rows of one timestamp stay in the order of the scan.  This is that
\* order read backwards, as IndexBefore is the order of the index.
SorterBefore(a, b) ==
    \/ a.timestamp < b.timestamp
    \/ a.timestamp = b.timestamp /\ a.id > b.id

RECURSIVE InsertRow(_, _, _)
InsertRow(row, sorted, byIndex) ==
    IF sorted = <<>> THEN <<row>>
    ELSE IF (IF byIndex THEN IndexBefore(row, Head(sorted))
             ELSE SorterBefore(row, Head(sorted)))
         THEN <<row>> \o sorted
         ELSE <<Head(sorted)>> \o InsertRow(row, Tail(sorted), byIndex)

RECURSIVE SortRows(_, _)
SortRows(table, byIndex) ==
    IF table = <<>> THEN <<>>
    ELSE InsertRow(Head(table), SortRows(Tail(table), byIndex), byIndex)

InIndexOrder(table) ==
    \A i \in 1..(Len(table) - 1) : IndexBefore(table[i], table[i + 1])

\* the rows of the table in the order the sorter gives for ORDER BY timestamp
\* DESC, last row first
TimeOrderNoIndex(table) == SortRows(table, FALSE)

\* the rows of the table in the order of idx_logs_time
IndexByTime(table) ==
    IF InIndexOrder(table) THEN table ELSE SortRows(table, TRUE)

\* LIMIT and OFFSET of SQLite: a negative OFFSET is 0, a negative LIMIT is no
\* limit
LimitOffset(rows, limit, offset) ==
    LET off == IF offset < 0 THEN 0 ELSE offset
        rest == IF off >= Len(rows) THEN <<>> ELSE SubSeq(rows, off + 1, Len(rows))
    IN  IF limit < 0 \/ limit >= Len(rest) THEN rest ELSE SubSeq(rest, 1, limit)

\* ORDER BY timestamp DESC is answered by scanning idx_logs_time backwards
\* when the index exists (byIndex), and by sorting the rows of a table scan
\* when it does not
SelectLogs(table, limit, offset, byIndex) ==
    LimitOffset(Reverse(IF byIndex THEN IndexByTime(table)
                        ELSE TimeOrderNoIndex(table)), limit, offset)

----------------------------------------------------------------------------
(* GET /admin/logs, server.js lines 163-175 *)

LimitQueries ==
    {Null, <<>>, <<"0">>, <<"1">>, <<"2">>, <<"-", "1">>, <<"1", "0", "0", "0">>,
     <<"1", "0", "0", "1">>, <<"a", "b", "c">>, <<" ", "2", "x">>,
     <<"\n", "2">>}

OffsetQueries == {Null, <<"0">>, <<"1">>, <<"-", "2">>, <<"x">>}

\* the bodies of the provider that hold all three fields
FullBodies == {j \in GeoBodies : j.parses /\ ~Falsy(j.region) /\ ~Falsy(j.city)}

\* lines 163-168: the query arrives.  While open() is pending the handler
\* waits at line 165; otherwise limit and offset are computed and db.all is
\* called.  One query of a run is followed.
AdminStart(lq, oq) ==
    /\ alive /\ admin.pc = "idle"
    /\ admin' = IF dbPromise = "resolved"
                THEN AdminResumed(AdminWaiting(lq, oq))
                ELSE AdminWaiting(lq, oq)
    /\ waiting' = IF dbPromise = "resolved" THEN waiting
                  ELSE Append(waiting, [kind |-> "admin", n |-> 0])
    /\ UNCHANGED <<now, nticks, jar, reqs, logs, seq, dbPromise, alive, rreqs,
                   rlogs, ipLog, sweeps, console, calls, indexed, mreqs,
                   initDb>>

\* line 168: SQLite runs the SELECT; NaN is bound as NULL, which LIMIT and
\* OFFSET reject (datatype mismatch).  With LIMIT 0 SQLite does not look at
\* OFFSET and returns no row.
AdminAll(ok) ==
    /\ alive /\ TableMade /\ admin.pc = "rows"
    /\ IF ok /\ ~admin.limit.nan /\ (~admin.offset.nan \/ admin.limit.v = 0)
       THEN /\ admin' = [admin EXCEPT !.pc = "count",
                           !.rows = SelectLogs(logs, admin.limit.v,
                                               admin.offset.v, indexed)]
            /\ console' = console
       ELSE /\ admin' = AdminCaught(admin)
            /\ console' = Append(console, "admin/logs error")
    /\ waiting' = Without(waiting, "admin", 0)
    /\ UNCHANGED <<now, nticks, jar, reqs, logs, seq, dbPromise, alive, rreqs,
                   rlogs, ipLog, sweeps, calls, indexed, mreqs, initDb>>

\* a query that empties the table once it has been listed
AdminGetPurging(ok) ==
    /\ alive /\ TableMade /\ admin.pc = "count"
    /\ admin' = [admin EXCEPT !.pc = "done", !.status = 200, !.total = Len(logs)]
    /\ logs' = <<>>
    /\ UNCHANGED <<now, nticks, jar, reqs, seq, dbPromise, alive, rreqs,
                   rlogs, ipLog, sweeps, console, calls, indexed, waiting,
                   mreqs, initDb>>

\* lines 169-170: SELECT COUNT(*), then the answer
AdminGet(ok) ==
    /\ alive /\ TableMade /\ admin.pc = "count"
    /\ IF ok
       THEN /\ admin' = [admin EXCEPT !.pc = "done", !.status = 200,
                                       !.total = Len(logs)]
            /\ console' = console
       ELSE /\ admin' = AdminCaught(admin)
            /\ console' = Append(console, "admin/logs error")
    /\ UNCHANGED <<now, nticks, jar, reqs, logs, seq, dbPromise, alive, rreqs,
                   rlogs, ipLog, sweeps, calls, indexed, waiting, mreqs,
                   initDb>>

(* SpecAdmin: log events that make no lookup, and one admin query *)

NextAdmin ==
    \/ OpenOk
    \/ TableCreated
    \/ IndexCreated
    \/ PseudonymIndexCreated
    \/ \E in \in UnknownInputs : Arrive("c1", in)
    \/ \E r \in DOMAIN reqs : DbRunOk(r)
    \/ \E r \in DOMAIN reqs : Respond(r)
    \/ \E lq \in LimitQueries, oq \in OffsetQueries : AdminStart(lq, oq)
    \/ \E ok \in BOOLEAN : AdminAll(ok)
    \/ \E ok \in BOOLEAN : AdminGet(ok)
    \/ \E s \in DOMAIN sweeps : SweepDeleteOk(s)
    \/ \E s \in DOMAIN sweeps : SweepEnd(s)
    \/ Tick

SpecAdmin == InitLog /\ [][NextAdmin]_vars

(* SpecClamp: the admin query over a table that holds more rows than the    *)
(* maximum of line 166, written by earlier runs, one row a second           *)

BigTable ==
    [i \in 1..(MAX_LIMIT + 1) |->
        LogRow(i, i - (MAX_LIMIT + 1), Computed(NewFrame("c1", CHOOSE in \in LogInputs : in.xff = Null /\ in.remote # Null)))]

InitClamp == ModuleLoaded(BigTable, TRUE)

NextClamp ==
    \/ OpenOk
    \/ TableCreated
    \/ \E lq \in LimitQueries, oq \in OffsetQueries : AdminStart(lq, oq)
    \/ \E ok \in BOOLEAN : AdminAll(ok)
    \/ \E ok \in BOOLEAN : AdminGet(ok)
    \/ Tick

SpecClamp == InitClamp /\ [][NextClamp]_vars

(* SpecRetention: the sweep of startup (line 200), the daily sweeps, and    *)
(* log events, in the runs where the store accepts every statement of       *)
(* initDb                                                                   *)

NextRetention ==
    \/ OpenOk
    \/ OpenFail
    \/ TableCreated
    \/ IndexCreated
    \/ PseudonymIndexCreated
    \/ SweepSteps
    \/ \E in \in UnknownInputs : Arrive("c1", in)
    \/ \E r \in DOMAIN reqs : DbRunOk(r)
    \/ \E r \in DOMAIN reqs : Respond(r)
    \/ CronFire
    \/ Tick
    \/ Idle

SpecRetention == InitLog /\ [][NextRetention]_vars

----------------------------------------------------------------------------
(* SpecStore: the two servers side by side from the start of the            *)
(* pseudonymizing one, with the store failing or not                        *)

NextStore ==
    \/ NextLog
    \/ \E in \in ProxiedInputs \cup UnknownInputs : ArriveRaw("c1", in)
    \/ RawSteps

SpecStore == InitLog /\ [][NextStore]_vars

----------------------------------------------------------------------------
(* SpecServer: the pseudonymizing server whole, over a table that holds a   *)
(* record of an earlier run: its start with every statement of initDb, the  *)
(* startup sweep and the daily sweeps, log events from behind the proxy     *)
(* that overlap, one admin query, and the store rejecting any statement.    *)
(* The provider answers a lookup in full, cannot be reached, or does not    *)
(* answer; the store settles a statement within the second in which it was *)
(* issued.                                                                  *)

\* a record written by an earlier run, RETENTION_DAYS days before this run
\* began
OldRow ==
    LogRow(1, 0 - HorizonSeconds,
           Computed(NewFrame("c1", CHOOSE in \in ProxiedInputs : TRUE)))

\* the start of the server over the table the earlier run has left
InitServer == ModuleLoaded(<<OldRow>>, FALSE)

\* no statement is pending in the store and no continuation is ready to run:
\* what is pending in the running process, if anything, are lookups.  What a
\* process that was stopped has left unfinished ("lost") is not pending.
StoreQuiet ==
    \/ ~alive
    \/ /\ dbPromise # "pending"
       /\ initDb \in {"done", "failed"}
       /\ \A r \in DOMAIN reqs : reqs[r].pc \notin {"db_run", "db_ok"}
       /\ \A s \in DOMAIN sweeps : sweeps[s].pc \in {"done", "failed", "lost"}
       /\ admin.pc \in {"idle", "done"}

\* a second passes while lookups wait for the provider and nothing else is
\* pending
QuietTick == StoreQuiet /\ TimerTick

NextServer ==
    \/ InitDbSteps
    \/ SweepSteps
    \/ \E in \in ProxiedInputs : Arrive("c1", in)
    \/ \E r \in DOMAIN reqs :
          \/ FetchHeaders(r, TRUE)
          \/ FetchFail(r)
          \/ TimerFire(r)
          \/ \E j \in FullBodies : BodyDone(r, j)
          \/ DbRunOk(r)
          \/ DbRunErr(r)
          \/ Respond(r)
    \/ AdminStart(Null, Null)
    \/ \E ok \in BOOLEAN : AdminAll(ok)
    \/ \E ok \in BOOLEAN : AdminGet(ok)
    \/ CronFire
    \/ QuietTick

SpecServer == InitServer /\ [][NextServer]_vars

\* FairServer: SpecServer under the scheduling node and SQLite guarantee.
\* open() settles, a statement that was issued settles, and a continuation
\* that is ready runs.  Nothing obliges the provider to answer, a timer to
\* fire or a second to pass: a lookup may stay pending for as long as it
\* likes.
FairServer ==
    /\ SpecServer
    /\ WF_vars(OpenFail \/ OpenOk)
    /\ WF_vars(TableCreated \/ TableFail)
    /\ WF_vars(IndexCreated \/ PseudonymIndexCreated \/ IndexFail)
    /\ WF_vars(\E ok \in BOOLEAN : AdminAll(ok))
    /\ WF_vars(\E ok \in BOOLEAN : AdminGet(ok))
    /\ \A r \in 1..MaxReq :
          /\ WF_vars(DbRunOk(r) \/ DbRunErr(r))
          /\ WF_vars(Respond(r))
    /\ \A s \in 1..(1 + MaxCron) :
          /\ WF_vars(SweepDeleteOk(s) \/ SweepDeleteErr(s))
          /\ WF_vars(SweepEnd(s))

----------------------------------------------------------------------------
(* SpecUtil: the utility functions called on their own                      *)

\* X-Forwarded-For values: absent, empty, blank, one address, lists, with
\* and without white space and the IPv4-mapped prefix
XffForms ==
    {Null, <<>>, <<" ">>, A_v4, A_v6,
     <<" ">> \o A_v4 \o <<" ", ",">> \o A_proxy,
     <<",">> \o A_v4,
     S_mapped \o A_v4,
     <<"\t">> \o S_mapped \o A_v4 \o <<",", " ">> \o A_proxy,
     A_v4 \o <<"\n", ",", " ">> \o A_proxy,
     <<"U+00A0">> \o S_mapped \o A_v4 \o <<"\r", "\n">>,
     A_v6 \o <<",", " ">> \o A_proxy \o <<",", " ">> \o A_v4}

PeerForms == {Null, <<>>, A_v4, S_mapped \o A_v4, A_v6, S_mapped}

\* arguments of maskIp: dotted quads, IPv6 text, IPv4-mapped addresses, IPv6
\* text that begins with ::ffff:, and text that is no address
MaskForms ==
    V4Pool \cup V6Pool \cup MappedPool
        \cup {S_mapped \o g : g \in {Join(<<a, b, c>>, ":") : a, b, c \in Groups}}
        \cup {Null, <<>>, S_unknown, <<":", ":">>, <<"1", ":", "2">>,
              <<"1", ".", "2", ".", "3">>, <<"1", ".", "2", ".", "3", ".", "4", ".", "5">>,
              <<"1", "2", "3", "4", ".", "1", ".", "1", ".", "1">>,
              <<"0", "0", "7", ".", "0", "1", ".", "2", "5", "5", ".", "0">>,
              <<"a", ".", "b", ".", "c", ".", "d">>,
              <<"1", ".", "2", ".", "3", ".", "4", " ">>}

\* line 130: getClientIp(req).replace(/^::ffff:/, '')
CallResolve(xff, remote) ==
    /\ calls' = <<[fn |-> "rawIp", arg |-> [xff |-> xff, remote |-> remote],
                  out |-> rawIpOf(xff, remote)]>>
    /\ UNCHANGED <<now, nticks, jar, reqs, logs, seq, dbPromise, alive, rreqs,
                   rlogs, ipLog, admin, sweeps, console, indexed, waiting,
                   mreqs, initDb>>

CallMaskIp(x) ==
    /\ calls' = <<[fn |-> "maskIp", arg |-> x, out |-> maskIp(x)]>>
    /\ UNCHANGED <<now, nticks, jar, reqs, logs, seq, dbPromise, alive, rreqs,
                   rlogs, ipLog, admin, sweeps, console, indexed, waiting,
                   mreqs, initDb>>

CallPseudonymizeIp(x) ==
    /\ calls' = <<[fn |-> "pseudonymizeIp", arg |-> x, out |-> pseudonymizeIp(x)]>>
    /\ UNCHANGED <<now, nticks, jar, reqs, logs, seq, dbPromise, alive, rreqs,
                   rlogs, ipLog, admin, sweeps, console, indexed, waiting,
                   mreqs, initDb>>

NextUtil ==
    \/ \E xff \in XffForms, remote \in PeerForms : CallResolve(xff, remote)
    \/ \E x \in MaskForms : CallMaskIp(x)
    \/ \E x \in PeerForms : CallPseudonymizeIp(x)

SpecUtil == InitLog /\ [][NextUtil]_vars

----------------------------------------------------------------------------
(* SpecRestart: the pseudonymizing server stopped and started again, with   *)
(* log events that come directly and through the proxy.  The provider      *)
(* answers a lookup in full, cannot be reached, or does not answer; the     *)
(* store settles a statement within the second in which it was issued.     *)

\* The process is stopped and started again with the same environment; the
\* new process is up a second later.  ip_store.db and the browsers' cookies
\* stay; every handler and sweep that had not finished is lost with the old
\* process.  Where line 47 threw in the process before (no sweep was ever
\* called), it throws again; otherwise the new process opens the database
\* (line 47) and calls its startup sweep (line 200).
Restart ==
    /\ nticks < MaxTicks
    /\ now' = now + 1 /\ nticks' = nticks + 1
    /\ IF sweeps = <<>>
         THEN UNCHANGED <<alive, dbPromise, reqs, sweeps, admin, waiting,
                          initDb, console>>
         ELSE /\ alive' = TRUE /\ dbPromise' = "pending"
              /\ reqs' = [r \in DOMAIN reqs |->
                            IF reqs[r].pc = "done" THEN reqs[r]
                            ELSE [reqs[r] EXCEPT !.pc = "lost"]]
              /\ sweeps' = Append([s \in DOMAIN sweeps |->
                                      IF sweeps[s].pc \in {"done", "failed"}
                                      THEN sweeps[s]
                                      ELSE [sweeps[s] EXCEPT !.pc = "lost"]],
                                  NewSweep(now + 1))
              /\ admin' = NoAdmin
              /\ waiting' = <<[kind |-> "sweep", n |-> Len(sweeps) + 1]>>
              /\ initDb' = "await_db"
              /\ console' = Append(console, S_KeyWarning)
    /\ UNCHANGED <<jar, logs, seq, rreqs, rlogs, ipLog, calls, indexed,
                   mreqs>>

NextRestart ==
    \/ InitDbSteps
    \/ SweepSteps
    \/ \E in \in LogInputs \ UnknownInputs : Arrive("c1", in)
    \/ \E r \in DOMAIN reqs :
          \/ FetchHeaders(r, TRUE)
          \/ FetchFail(r)
          \/ TimerFire(r)
          \/ \E j \in FullBodies : BodyDone(r, j)
          \/ DbRunOk(r)
          \/ DbRunErr(r)
          \/ Respond(r)
    \/ QuietTick
    \/ Restart

SpecRestart == InitLog /\ [][NextRestart]_vars

(* ------------------------------ Claims ------------------------------ *)

\* the row of `table` with id `id` (ids are unique in a table)
RowOf(table, id) == table[CHOOSE i \in DOMAIN table : table[i].id = id]

HasRow(table, id) == \E i \in DOMAIN table : table[i].id = id

\* The raw address a stored row holds: column ip of the raw variant's table;
\* the table of lines 55-66 has no column for it.
RawAddressOf(row) == IF "ip" \in DOMAIN row THEN row.ip ELSE Null

GeoFailures == {"timeout", "non2xx", "network", "malformed"}

\* C2: a log event that carried the consent cookie stores a record whose raw
\* address is the address resolved for the request.
C2_ConsentStoresRaw ==
    \A r \in DOMAIN reqs :
        (reqs[r].cookie /\ reqs[r].rowid # 0 /\ HasRow(logs, reqs[r].rowid))
            => RawAddressOf(RowOf(logs, reqs[r].rowid)) = reqs[r].rawIp

\* C4: every geo lookup that is pending (waiting for the response head or for
\* the body) eventually ends, whatever the provider does, in a process that
\* goes on running.
C4_LookupEnds ==
    \A r \in 1..MaxReq :
        (r \in DOMAIN reqs /\ reqs[r].pc \in {"fetch", "body"})
            ~> (~alive \/ (r \in DOMAIN reqs
                              /\ reqs[r].pc \notin {"fetch", "body"}))

\* C5 as stated: a finished log event whose geo lookup failed has appended
\* one record with null country, region and city and was answered 200.
C5_GeoFailureAlwaysSucceeds ==
    \A r \in DOMAIN reqs :
        (reqs[r].geoOutcome \in GeoFailures /\ reqs[r].pc = "done")
            => /\ reqs[r].acks = <<200>>
               /\ Cardinality({i \in DOMAIN logs : logs[i].id = reqs[r].rowid}) = 1

\* C5 as amended: a log event whose geo lookup failed made one request to the
\* provider and no more; it is answered at most once, 500 only when the
\* store rejected its INSERT, 200 only when the table holds exactly one
\* record of it, whose country, region and city are null; and while the
\* process runs it goes on to its answer: it stays unanswered only when the
\* process has ended (open() or a statement of initDb was rejected).
C5_GeoFailureNeverFailsLog ==
    /\ [](\A r \in DOMAIN reqs :
            reqs[r].geoOutcome \in GeoFailures =>
                /\ reqs[r].fetches = 1
                /\ Len(reqs[r].acks) <= 1
                /\ reqs[r].acks = <<>> => reqs[r].pc \in {"db_run", "db_ok"}
                /\ reqs[r].acks = <<500>> =>
                      reqs[r].storeErr /\ reqs[r].rowid = 0
                /\ reqs[r].acks = <<200>> =>
                      /\ ~reqs[r].storeErr
                      /\ Cardinality({i \in DOMAIN logs :
                                         logs[i].id = reqs[r].rowid}) = 1
                      /\ LET row == RowOf(logs, reqs[r].rowid)
                         IN  /\ row.country = Null
                             /\ row.region = Null
                             /\ row.city = Null)
    /\ \A r \in 1..MaxReq :
          (r \in DOMAIN reqs /\ reqs[r].geoOutcome \in GeoFailures)
              ~> (~alive \/ (r \in DOMAIN reqs /\ Len(reqs[r].acks) = 1))

\* a lookup that timed out and one whose body was no JSON have each ended in
\* a stored record with null geo columns and a 200, in a process that has
\* created its table and its indexes
C5_Witness ==
    /\ Len(reqs) = 2 /\ alive /\ initDb = "done"
    /\ reqs[1].geoOutcome = "timeout" /\ reqs[1].acks = <<200>>
    /\ reqs[2].geoOutcome = "malformed" /\ reqs[2].acks = <<200>>
    /\ Len(logs) = 2
    /\ \A i \in DOMAIN logs : logs[i].country = Null /\ logs[i].city = Null

\* C6: ids grow strictly in the order the INSERTs were applied, and once all
\* log events of the run have been answered 200 the table holds exactly one
\* record per log event, under pairwise distinct ids.
C6_ConcurrentAppends ==
    /\ \A i, j \in DOMAIN logs : i < j => logs[i].id < logs[j].id
    /\ (\A r \in DOMAIN reqs : reqs[r].pc = "done" /\ reqs[r].acks = <<200>>)
          => /\ Len(logs) = Len(reqs)
             /\ Cardinality({reqs[r].rowid : r \in DOMAIN reqs}) = Len(reqs)
             /\ {reqs[r].rowid : r \in DOMAIN reqs}
                    = {logs[i].id : i \in DOMAIN logs}

\* two log events overlapped: the one that arrived later, with the shorter
\* geo lookup, was inserted first, and both were answered 200
C6_Witness ==
    /\ Len(reqs) >= 2
    /\ \A r \in DOMAIN reqs : reqs[r].pc = "done" /\ reqs[r].acks = <<200>>
    /\ reqs[2].rowid < reqs[1].rowid
    /\ reqs[1].geoOutcome = "timeout"

\* C1: no stored record of a log event that came without the consent cookie
\* holds a raw address, in the pseudonymizing server and in the raw variant.
C1_NoConsentNoRaw ==
    /\ \A r \in DOMAIN reqs :
          (~reqs[r].cookie /\ HasRow(logs, reqs[r].rowid))
              => RawAddressOf(RowOf(logs, reqs[r].rowid)) = Null
    /\ \A r \in DOMAIN rreqs :
          (~rreqs[r].cookie /\ HasRow(rlogs, rreqs[r].rowid))
              => RawAddressOf(RowOf(rlogs, rreqs[r].rowid)) = Null

\* C3: the masked value of a persisted entry made from a recognized IPv4 or
\* IPv6 address differs from that address, for the rows of table logs and for
\* the lines of ip-log.txt.
C3_MaskedDiffersFromRaw ==
    /\ \A r \in DOMAIN reqs :
          (HasRow(logs, reqs[r].rowid) /\ Recognized(reqs[r].rawIp))
              => RowOf(logs, reqs[r].rowid).ip_masked # reqs[r].rawIp
    /\ \A i \in DOMAIN ipLog :
          Recognized(ipLog[i].from) => ipLog[i].masked # ipLog[i].from

\* the limit most recently appended rows of the table after skipping the
\* offset most recent ones, most recent first (a table lists its rows in the
\* order they were appended)
RecentWindow(table, limit, offset) ==
    LET left == IF Len(table) > offset THEN Len(table) - offset ELSE 0
        n == IF limit < left THEN limit ELSE left
    IN  [k \in 1..n |-> table[Len(table) - offset - k + 1]]

\* C7: the rows an admin query reads are the limit most recently appended
\* ones after skipping the offset most recent, each appended after the next,
\* also when rows share a timestamp.
C7_ListRecency ==
    [][(admin.pc = "rows" /\ admin'.pc = "count" /\ admin.limit.v >= 0)
          => /\ admin'.rows = RecentWindow(logs, admin.limit.v, admin.offset.v)
             /\ \A k \in 1..(Len(admin'.rows) - 1) :
                   admin'.rows[k].id > admin'.rows[k + 1].id]_vars

\* C8: an answered admin query had an effective limit of at most 1000 and an
\* effective offset of at least 0, and its answer holds at most 1000 records.
C8_LimitClamped ==
    (admin.pc = "done" /\ admin.status = 200)
        => /\ ~admin.limit.nan /\ admin.limit.v <= MAX_LIMIT
           /\ ~admin.offset.nan /\ admin.offset.v >= 0
           /\ Len(admin.rows) <= MAX_LIMIT

\* C9: a sweep that deletes leaves exactly the rows whose timestamp is not
\* older than RETENTION_DAYS days before the time the sweep was called.
C9_SweepRemovesExactlyOlder ==
    [][\A s \in DOMAIN sweeps :
          (s \in DOMAIN sweeps' /\ sweeps[s].pc = "deleting" /\ sweeps'[s].pc = "deleted")
              => logs' = SelectSeq(logs, LAMBDA row :
                            row.timestamp >= sweeps[s].called - RETENTION_DAYS * 24 * 60 * 60)]_vars

\* C10: when a sweep has failed, the failure is logged and the process is
\* still running, so the later triggers still call a sweep.
C10_SweepFailureContained ==
    \A s \in DOMAIN sweeps :
        sweeps[s].pc = "failed"
            => /\ alive
               /\ \E k \in DOMAIN console : console[k] = "Retention job failed:"

\* what C11 as stated says of the frames fs of one server and its table
StoreFailureKeepsRunning(fs, table, running) ==
    /\ \A r \in DOMAIN fs :
          fs[r].storeErr
              => /\ fs[r].pc = "done" /\ fs[r].acks = <<500>>
                 /\ fs[r].rowid = 0
                 /\ running
                 /\ \A o \in DOMAIN fs :
                       (fs[o].pc = "done" /\ ~fs[o].storeErr)
                           => fs[o].acks = <<200>> /\ HasRow(table, fs[o].rowid)
    /\ Len(table) = Cardinality({r \in DOMAIN fs : fs[r].rowid # 0})

EachByItsOwnOutcome(fs, table, openFailed) ==
    /\ \A r \in DOMAIN fs :
          /\ fs[r].storeErr => fs[r].pc = "done"
          /\ fs[r].pc = "done" =>
                \/ /\ fs[r].acks = <<200>> /\ ~fs[r].storeErr
                   /\ HasRow(table, fs[r].rowid)
                \/ /\ fs[r].acks = <<500>> /\ fs[r].rowid = 0
                   /\ fs[r].storeErr \/ openFailed
    /\ Len(table) = Cardinality({r \in DOMAIN fs : fs[r].rowid # 0})

OnlyLookupsPending ==
    /\ \A o \in DOMAIN reqs : reqs[o].pc \in {"fetch", "body", "done"}
    /\ admin.pc \in {"idle", "done"}
    /\ \A s \in DOMAIN sweeps : sweeps[s].pc \in {"done", "failed"}

\* C12: whatever the lookups of the log events do, also when one stays
\* pending for ever, the other work does not wait for them: as long as the
\* process runs, again and again all of it has ended, that is, every log
\* event that is not in its own lookup has been answered, the admin query
\* has been answered and every sweep that was called has ended.
C12_LookupBlocksNobody == []<>(~alive \/ OnlyLookupsPending)

\* the first log event still waits for the provider, its timer running; the
\* second, which arrived after it, is stored and answered; the admin query
\* has listed the second event's record; a sweep called by the daily trigger
\* has finished
C12_Witness ==
    /\ alive /\ Len(reqs) = 2
    /\ reqs[1].pc = "fetch" /\ reqs[1].timer = "armed"
    /\ reqs[2].pc = "done" /\ reqs[2].acks = <<200>>
    /\ HasRow(logs, reqs[2].rowid)
    /\ admin.pc = "done" /\ admin.status = 200
    /\ \E k \in DOMAIN admin.rows : admin.rows[k].id = reqs[2].rowid
    /\ Len(sweeps) = 2 /\ sweeps[2].pc = "done"

\* C13: in every step, a record that stays in table logs stays as it was
\* (same id, same fields), and a record leaves the table only in the step in
\* which a retention sweep deletes.
C13_AppendOnly ==
    [][\A i \in DOMAIN logs :
          \/ /\ \E j \in DOMAIN logs' : logs'[j] = logs[i]
             /\ \A j \in DOMAIN logs' : logs'[j].id = logs[i].id => logs'[j] = logs[i]
          \/ /\ \A j \in DOMAIN logs' : logs'[j].id # logs[i].id
             /\ \E s \in DOMAIN sweeps :
                   sweeps[s].pc = "deleting" /\ sweeps'[s].pc = "deleted"]_vars

\* the startup sweep has removed the record of the earlier run; the records
\* of two log events that overlapped, one of them ended by its timer, are in
\* the table, and the admin query has listed both as they are
C13_Witness ==
    /\ alive /\ sweeps[1].pc = "done"
    /\ Len(logs) = 2 /\ \A i \in DOMAIN logs : logs[i].id > 1
    /\ Len(reqs) = 2 /\ reqs[1].geoOutcome = "timeout"
    /\ reqs[2].rowid # 0 /\ reqs[2].rowid < reqs[1].rowid
    /\ admin.pc = "done" /\ admin.status = 200 /\ Len(admin.rows) = 2
    /\ \A k \in DOMAIN admin.rows : \E i \in DOMAIN logs : logs[i] = admin.rows[k]

\* s without a leading ::ffff:
WithoutMappedPrefix(s) ==
    IF Len(s) >= 7 /\ SubSeq(s, 1, 7) = <<":", ":", "f", "f", "f", "f", ":">>
    THEN SubSeq(s, 8, Len(s)) ELSE s

\* the text of s before its first comma
FirstEntry(s) ==
    IF \E i \in DOMAIN s : s[i] = ","
    THEN SubSeq(s, 1, (CHOOSE i \in DOMAIN s :
                           s[i] = "," /\ \A k \in 1..(i - 1) : s[k] # ",") - 1)
    ELSE s

\* s without the white space at its ends
Trimmed(s) ==
    LET inner == {i \in DOMAIN s : s[i] \notin WhiteSpace}
    IN  IF inner = {} THEN <<>>
        ELSE SubSeq(s, CHOOSE i \in inner : \A k \in inner : i <= k,
                       CHOOSE i \in inner : \A k \in inner : i >= k)

\* C14: the resolved address is the trimmed first entry of the forwarding
\* header when the header is there (not empty), else the peer address when
\* there is one, else "unknown", each without a leading ::ffff:; it is
\* always a string.
C14_Resolution ==
    \A k \in DOMAIN calls :
        calls[k].fn = "rawIp"
            => LET xff == calls[k].arg.xff
                   remote == calls[k].arg.remote
               IN  /\ calls[k].out # Null
                   /\ calls[k].out = WithoutMappedPrefix(
                          IF xff # Null /\ xff # <<>> THEN Trimmed(FirstEntry(xff))
                          ELSE IF remote # Null /\ remote # <<>> THEN remote
                          ELSE <<"u", "n", "k", "n", "o", "w", "n">>)

\* a header that lists two addresses, with white space and the mapped prefix
\* before the first, resolved to the first address
C14_Witness ==
    /\ calls # <<>> /\ calls[1].fn = "rawIp"
    /\ calls[1].arg.xff = <<"\t">> \o S_mapped \o A_v4 \o <<",", " ">> \o A_proxy
    /\ calls[1].out = A_v4

\* positions of the dots of s
DotsOf(s) == {i \in DOMAIN s : s[i] = "."}

\* C15: maskIp of a valid IPv4 string a.b.c.d is a.b.x.x: the text up to the
\* second dot, then ".x.x".
C15_MaskIPv4 ==
    \A k \in DOMAIN calls :
        (calls[k].fn = "maskIp" /\ calls[k].arg # Null /\ IsIPv4(calls[k].arg))
            => LET x == calls[k].arg
                   d2 == CHOOSE i \in DotsOf(x) :
                             Cardinality({j \in DotsOf(x) : j < i}) = 1
               IN  calls[k].out = SubSeq(x, 1, d2 - 1) \o <<".", "x", ".", "x">>

C15_Witness ==
    /\ calls # <<>> /\ calls[1].fn = "maskIp"
    /\ calls[1].arg = <<"1", "9", "2", ".", "2", "5", ".", "0", ".", "4", "2">>
    /\ calls[1].out = <<"1", "9", "2", ".", "2", "5", ".", "x", ".", "x">>

\* the i-th non-empty colon-delimited group of s, i at most their number
GroupStarts(s) == {i \in DOMAIN s : s[i] # ":" /\ (i = 1 \/ s[i - 1] = ":")}

NthGroup(s, n) ==
    LET b == CHOOSE i \in GroupStarts(s) :
                 Cardinality({j \in GroupStarts(s) : j < i}) = n - 1
        e == CHOOSE i \in b..Len(s) :
                 /\ \A j \in b..i : s[j] # ":"
                 /\ (i = Len(s) \/ s[i + 1] = ":")
    IN  SubSeq(s, b, e)

\* C16: maskIp of an IPv6 string is its first three non-empty groups joined
\* by ':' and then ":xxxx:xxxx" when it has three or more of them, and
\* "masked" otherwise.
C16_MaskIPv6 ==
    \A k \in DOMAIN calls :
        (calls[k].fn = "maskIp" /\ calls[k].arg # Null /\ IsIPv6(calls[k].arg))
            => LET x == calls[k].arg
               IN  IF Cardinality(GroupStarts(x)) >= 3
                   THEN calls[k].out =
                            NthGroup(x, 1) \o <<":">> \o NthGroup(x, 2) \o <<":">>
                                \o NthGroup(x, 3)
                                \o <<":", "x", "x", "x", "x", ":", "x", "x", "x", "x">>
                   ELSE calls[k].out = <<"m", "a", "s", "k", "e", "d">>

\* the address of a request with forwarding header xff and peer address
\* remote, as the specification resolves it
ResolvedAddress(xff, remote) ==
    WithoutMappedPrefix(
        IF xff # Null /\ xff # <<>> THEN Trimmed(FirstEntry(xff))
        ELSE IF remote # Null /\ remote # <<>> THEN remote
        ELSE <<"u", "n", "k", "n", "o", "w", "n">>)

\* C17: two stored records of requests whose addresses resolve to the same
\* address carry equal pseudonyms, whatever the requests otherwise held,
\* whenever and by whichever process they were written; the pseudonym of a
\* record is the HMAC-SHA256 digest of that address under the key of line 24
\* and of nothing else.
C17_PseudonymDeterministic ==
    /\ \A r1, r2 \in DOMAIN reqs :
          (/\ HasRow(logs, reqs[r1].rowid) /\ HasRow(logs, reqs[r2].rowid)
           /\ ResolvedAddress(reqs[r1].xff, reqs[r1].remote)
                  = ResolvedAddress(reqs[r2].xff, reqs[r2].remote))
              => RowOf(logs, reqs[r1].rowid).ip_pseudonym
                     = RowOf(logs, reqs[r2].rowid).ip_pseudonym
    /\ \A r \in DOMAIN reqs :
          HasRow(logs, reqs[r].rowid)
              => RowOf(logs, reqs[r].rowid).ip_pseudonym
                     = <<"hmac-sha256", "replace_this_with_a_strong_secret",
                         ResolvedAddress(reqs[r].xff, reqs[r].remote)>>

\* two records of one address, the first written at time 0 by the first
\* process from a request that came directly, the second at time 1 by the
\* process started after it from a request that came through the proxy;
\* the requests differ in header, peer address, path and user agent
C17_Witness ==
    /\ Len(logs) = 2 /\ Len(reqs) = 2 /\ Len(sweeps) = 2
    /\ logs[1].timestamp = 0 /\ logs[2].timestamp = 1
    /\ reqs[1].rowid = logs[1].id /\ reqs[2].rowid = logs[2].id
    /\ reqs[1].rawIp = reqs[2].rawIp /\ reqs[1].rawIp = A_v4
    /\ reqs[1].xff = Null /\ reqs[2].xff # Null
    /\ reqs[1].remote # reqs[2].remote
    /\ logs[1].path # logs[2].path
    /\ logs[1].user_agent # logs[2].user_agent
    /\ logs[1].ip_pseudonym = logs[2].ip_pseudonym

\* C18: the record of a log event whose body has no path, or an empty one,
\* holds the path "/", in both servers.
C18_MissingPathDefault ==
    /\ \A r \in DOMAIN reqs :
          (reqs[r].path \in {Null, <<>>} /\ HasRow(logs, reqs[r].rowid))
              => RowOf(logs, reqs[r].rowid).path = <<"/">>
    /\ \A r \in DOMAIN rreqs :
          (rreqs[r].path \in {Null, <<>>} /\ HasRow(rlogs, rreqs[r].rowid))
              => RowOf(rlogs, rreqs[r].rowid).path = <<"/">>

\* C19: a log event whose resolved address is unknown or empty makes no
\* request to the provider and starts no timer, and has no geo data, in both
\* servers.
C19_UnknownSkipsLookup ==
    /\ \A r \in DOMAIN reqs :
          (reqs[r].pc # "await_db"
             /\ reqs[r].rawIp \in {<<"u", "n", "k", "n", "o", "w", "n">>, <<>>})
              => /\ reqs[r].fetches = 0 /\ reqs[r].timer = "none"
                 /\ reqs[r].geo.isNull
    /\ \A r \in DOMAIN rreqs :
          rreqs[r].ip \in {<<"u", "n", "k", "n", "o", "w", "n">>,
                           <<"U", "n", "k", "n", "o", "w", "n">>, <<>>}
              => rreqs[r].fetches = 0

\* what C20 says of a log event at every moment: it has been answered at
\* most once, and a 200 was sent only after its record was inserted
AnsweredAtMostOnce(fs, table) ==
    \A r \in DOMAIN fs :
        /\ Len(fs[r].acks) <= 1
        /\ fs[r].pc = "done" => Len(fs[r].acks) = 1
        /\ fs[r].acks = <<200>> => HasRow(table, fs[r].rowid)

\* C20: every log event is answered at most once, a 200 only after its
\* record was inserted and with the ip_masked of that record; and every log
\* event whose handler has got past opening the database is answered in the
\* end, in a process that goes on running.
C20_AnsweredExactlyOnce ==
    /\ [](/\ AnsweredAtMostOnce(reqs, logs)
          /\ AnsweredAtMostOnce(rreqs, rlogs)
          /\ \A r \in DOMAIN reqs :
                reqs[r].acks = <<200>>
                    => reqs[r].ackMasked = RowOf(logs, reqs[r].rowid).ip_masked)
    /\ \A r \in 1..MaxReq :
          (r \in DOMAIN reqs /\ reqs[r].pc \in {"fetch", "body", "db_run", "db_ok"})
              ~> (~alive \/ (r \in DOMAIN reqs /\ Len(reqs[r].acks) = 1))

=============================================================================
